---- MODULE Spec2Model ----
(***************************************************************************)
(* Model of streamlit_github.py (rate_limit guard, st.cache'd resolvers,   *)
(* GithubCoords parsing) and of the batch loop of streamlit_app.py.        *)
(*                                                                         *)
(* The program is sequential: one call is in flight at a time.  A guarded  *)
(* call is split at its interactions with the outside world (an attempt of *)
(* the wrapped function, the rate-limit status query, the sleep), so that  *)
(* the order and the number of those interactions are observable.          *)
(*                                                                         *)
(* Time is counted in ticks, TicksPerSec ticks to the second, so that a    *)
(* reset time that is not a whole number of seconds away is representable. *)
(* github.get_rate_limit() is taken to return a snapshot (the source       *)
(* treats it so, src/streamlit_github.py:45).                              *)
(***************************************************************************)
EXTENDS Integers, Sequences, FiniteSets, TLC

VARIABLES
    pc,          \* position of the call in flight: idle, attempt, caught,
                 \* sleeping, returned, raised
    fn, key,     \* the function called and its cache key
    caller,      \* who called it: client, main or batch
    attempts,    \* invocations of the wrapped (cached) function in this call
    bodyRuns,    \* executions of the function body (underlying calls) in this call
    queries,     \* rate-limit status queries in this call
    sleeps,      \* completed time.sleep calls in this call
    events,      \* the interactions of this call, in order
    outs,        \* the outcome of each attempt of this call
    remaining,   \* search_limit.reset - utcnow(), in ticks
    wait,        \* wait_seconds
    result,      \* what the call returned or raised
    response,    \* the remote response the last run of the body met
    cache,       \* st.cache: function name -> (key -> stored value)
    stored,      \* function name -> keys stored since the process started
    apps, idx, has_streamlit_badge,   \* parse_s4a_apps: locals
    candidate,   \* the string handed to the parse function
    parser,      \* the parse function applied to it
    parsed,      \* what the parse function returned or raised
    readme_contents,   \* parse_s4a_apps: the decoded README of the last item
    batch,       \* parse_s4a_apps: off, loop, resolving, done, raised
    error,       \* the exception that ended parse_s4a_apps
    exported     \* the rows written to out.csv

vars == <<pc, fn, key, caller, attempts, bodyRuns, queries, sleeps, events,
          outs, remaining, wait, result, response, cache, stored,
          apps, idx, has_streamlit_badge, candidate, parser, parsed, readme_contents,
          batch, error, exported>>

callVars == <<pc, fn, key, caller, attempts, bodyRuns, queries, sleeps, events,
              outs, remaining, wait, result, response>>

parseVars == <<candidate, parser, parsed>>

batchVars == <<apps, idx, has_streamlit_badge, candidate, parser, parsed, readme_contents,
               batch, error, exported>>

----------------------------------------------------------------------------
(* Bounds *)

TicksPerSec == 2
MaxPastSecs == 3
NearSecs == 1
SampleSecs == 37
FarAheadSecs == 500

(* Program constants *)

MAX_WAIT_SECONDS == 60

----------------------------------------------------------------------------
(* Arithmetic helpers *)

Min(a, b) == IF a <= b THEN a ELSE b

Max(a, b) == IF a >= b THEN a ELSE b

\* math.ceil(n / d) for an integer n and d > 0
Ceil(n, d) == -((-n) \div d)

Return(v) == [kind |-> "return", val |-> v]

Raise(e) == [kind |-> "raise", val |-> e]

NoResult == [kind |-> "none", val |-> "none"]

----------------------------------------------------------------------------
(* The functions of streamlit_github.py and their decorators *)

Functions == {"from_access_token", "get_user_from_email",
              "get_streamlit_files", "get_repo"}

\* every cached function decorated with @rate_limit, get_repo included
Guarded_all(f) == f \in Functions

\* the functions decorated with @rate_limit
Guarded(f) == f \in {"from_access_token", "get_user_from_email", "get_streamlit_files"}

\* the functions decorated with @st.cache(..., persist=True)
Persisted(f) == f \in {"get_user_from_email", "get_streamlit_files"}

----------------------------------------------------------------------------
(* GithubCoords: URLs are sequences of characters; the scheme-and-host     *)
(* literal of each grammar is one token.                                   *)

APP_HOST == "https://share.streamlit.io/"

GITHUB_HOST == "https://github.com/"

\* the characters of the class [\w-] that the model uses
WordChars == {"a", "b", "d", "l", "m", "o", "p", "y", "-", "_"}

\* index just after the longest run of [\w-] characters that starts at i
RECURSIVE RunEnd(_, _)
RunEnd(s, i) == IF i <= Len(s) /\ s[i] \in WordChars THEN RunEnd(s, i + 1) ELSE i

\* the literal lit occurs in s at index i
HasLit(s, i, lit) ==
    /\ i + Len(lit) - 1 <= Len(s)
    /\ \A j \in 1..Len(lit) : s[i + j - 1] = lit[j]

NoCoords == [owner |-> <<>>, repo |-> <<>>, branch |-> <<>>, path |-> <<>>]

NoMatch == [matched |-> FALSE, coords |-> NoCoords]

\* pattern.match(url) for  host ([\w-]+) / ([\w-]+) mid ([\w-]+) / ([\w-]+ ext):
\* anchored at the start of the string only; each group is greedy and the
\* character after a group is outside [\w-], so the match is determined.
re_match(url, host, mid, ext) ==
    IF ~(Len(url) >= 1 /\ url[1] = host) THEN NoMatch
    ELSE LET o1 == 2
             o2 == RunEnd(url, o1)
             r1 == o2 + 1
             r2 == RunEnd(url, r1)
             b1 == r2 + Len(mid)
             b2 == RunEnd(url, b1)
             p1 == b2 + 1
             p2 == RunEnd(url, p1)
         IN IF /\ o2 > o1 /\ HasLit(url, o2, <<"/">>)
               /\ r2 > r1 /\ HasLit(url, r2, mid)
               /\ b2 > b1 /\ HasLit(url, b2, <<"/">>)
               /\ p2 > p1 /\ HasLit(url, p2, ext)
            THEN [matched |-> TRUE,
                  coords |-> [owner  |-> SubSeq(url, o1, o2 - 1),
                              repo   |-> SubSeq(url, r1, r2 - 1),
                              branch |-> SubSeq(url, b1, b2 - 1),
                              path   |-> SubSeq(url, p1, p2 - 1) \o ext]]
            ELSE NoMatch

\* GithubCoords.from_app_url: matched_url.group(...) on a failed match is an
\* attribute access on None
from_app_url(url) ==
    LET matched_url == re_match(url, APP_HOST, <<"/">>, <<".", "p", "y">>)
    IN IF matched_url.matched
       THEN [kind |-> "return", val |-> matched_url.coords]
       ELSE [kind |-> "raise", val |-> "AttributeError"]

from_github_url(url) ==
    LET matched_url == re_match(url, GITHUB_HOST, <<"/", "b", "l", "o", "b", "/">>,
                                <<".", "m", "d">>)
    IN IF matched_url.matched
       THEN [kind |-> "return", val |-> matched_url.coords]
       ELSE [kind |-> "raise", val |-> "AttributeError"]

\* s is a non-empty run of [\w-] characters
IsWord(s) == Len(s) >= 1 /\ \A i \in 1..Len(s) : s[i] \in WordChars

\* the whole of u is  host word / word mid word / word ext : the language of
\* the regular expression, taken as a grammar for whole strings
InGrammar(u, host, mid, ext) ==
    /\ Len(u) >= 1 /\ u[1] = host
    /\ \E i \in 3..Len(u) :
         /\ u[i] = "/" /\ IsWord(SubSeq(u, 2, i - 1))
         /\ \E j \in (i + 2)..Len(u) :
              /\ HasLit(u, j, mid) /\ IsWord(SubSeq(u, i + 1, j - 1))
              /\ \E k \in (j + Len(mid) + 1)..Len(u) :
                   /\ u[k] = "/" /\ IsWord(SubSeq(u, j + Len(mid), k - 1))
                   /\ \E l \in (k + 2)..Len(u) :
                        /\ HasLit(u, l, ext) /\ IsWord(SubSeq(u, k + 1, l - 1))
                        /\ l + Len(ext) - 1 = Len(u)

AppGrammar(u) == InGrammar(u, APP_HOST, <<"/">>, <<".", "p", "y">>)

GithubGrammar(u) ==
    InGrammar(u, GITHUB_HOST, <<"/", "b", "l", "o", "b", "/">>, <<".", "m", "d">>)

\* the strings handed to the parse functions: a host, four segments, the
\* separators, an extension and what follows it; "?" is a character outside
\* [\w-], and some segments are empty or hold a character that is not allowed
Urls ==
    {<<h>> \o o \o <<"/">> \o r \o mid \o b \o <<"/">> \o st \o e \o t :
        h \in {APP_HOST, GITHUB_HOST},
        o \in {<<"a">>, <<>>, <<"a", "?">>},
        r \in {<<"b">>, <<"b", "-", "l">>},
        mid \in {<<"/">>, <<"/", "b", "l", "o", "b", "/">>},
        b \in {<<"m">>, <<>>},
        st \in {<<"a">>, <<"p", "y">>, <<"a", "/", "b">>},
        e \in {<<".", "p", "y">>, <<".", "m", "d">>, <<".">>, <<>>},
        t \in {<<>>, <<"d">>, <<"/", "a">>, <<"?">>}}
      \cup {<<>>, <<"a">>}

----------------------------------------------------------------------------
(* Inputs *)

AppUrl(owner, repo, branch) ==
    <<APP_HOST, owner, "/", repo, "/", branch, "/", "a", ".", "p", "y">>

\* the rows of the app listing (get_s4a_apps): the last one is malformed
AppTable == <<AppUrl("a", "b", "m"), AppUrl("a", "d", "m"), <<APP_HOST, "a", "/", "b">>>>

Tokens == {"tokA"}

Emails == {"e1"}

Logins == {"l1"}

CoordsSet == {from_app_url(AppTable[i]).val : i \in 1..2}

Keys(f) == CASE f = "from_access_token"   -> Tokens
             [] f = "get_user_from_email" -> Emails
             [] f = "get_streamlit_files" -> Logins
             [] f = "get_repo"            -> CoordsSet

----------------------------------------------------------------------------
(* The remote API: the response classes a call can meet *)

UserLists == {<<>>, <<"u1">>, <<"u2">>, <<"u1", "u2">>}

FileLists == {<<>>, <<"f1">>}

Snapshots == {"s1", "s2"}

Resp(kind, data) == [kind |-> kind, data |-> data]

NoResp == [kind |-> "none", data |-> "none"]

Responses(f, k) ==
    CASE f = "from_access_token" ->
           {Resp("ok", k)}
      [] f = "get_user_from_email" ->
           {Resp("ok", u) : u \in UserLists}
             \cup {Resp("rate_limited", <<>>), Resp("error", <<>>)}
      [] f = "get_streamlit_files" ->
           {Resp("ok", l) : l \in FileLists}
             \cup {Resp("rate_limited", <<>>), Resp("validation_failed", <<>>),
                   Resp("error", <<>>), Resp("error_no_message", <<>>)}
      [] f = "get_repo" ->
           {Resp("ok", s) : s \in Snapshots}
             \cup {Resp("rate_limited", ""), Resp("not_found", ""), Resp("error", "")}

\* the exception a failed remote call raises
RemoteException(resp) ==
    CASE resp.kind = "rate_limited" -> "RateLimitExceededException"
      [] resp.kind = "not_found"    -> "UnknownObjectException"
      [] OTHER                      -> "GithubException"

----------------------------------------------------------------------------
(* The bodies of the cached functions *)

from_access_token(access_token, resp) == Return([token |-> resp.data])

\* get_user_from_email taking the first match when there are several
get_user_from_email_first(email, resp) ==
    IF resp.kind # "ok" THEN Raise(RemoteException(resp))
    ELSE LET users == resp.data
         IN IF Len(users) = 0 THEN Return("None") ELSE Return(users[1])

get_user_from_email(email, resp) ==
    IF resp.kind # "ok" THEN Raise(RemoteException(resp))
    ELSE LET users == resp.data
         IN IF Len(users) = 0 THEN Return("None")
            ELSE IF Len(users) = 1 THEN Return(users[1])
            ELSE Raise("RuntimeError")

\* "error" is a GithubException whose data holds another message;
\* "error_no_message" is one whose data holds no 'message' entry (the body of
\* the error response was not the API's JSON), for which e.data['message']
\* raises KeyError inside the handler
get_streamlit_files(github_login, resp) ==
    IF resp.kind = "ok" THEN Return(resp.data)
    ELSE IF resp.kind = "rate_limited" THEN Raise("RateLimitExceededException")
    ELSE IF resp.kind = "validation_failed" THEN Return(<<>>)
    ELSE IF resp.kind = "error_no_message" THEN Raise("KeyError")
    ELSE Raise(RemoteException(resp))

get_repo(coords, resp) ==
    IF resp.kind = "ok"
    THEN Return([git_url |-> <<coords.owner, coords.repo>>, snapshot |-> resp.data])
    ELSE Raise(RemoteException(resp))

Body(f, k, resp) ==
    CASE f = "from_access_token"   -> from_access_token(k, resp)
      [] f = "get_user_from_email" -> get_user_from_email(k, resp)
      [] f = "get_streamlit_files" -> get_streamlit_files(k, resp)
      [] f = "get_repo"            -> get_repo(k, resp)

----------------------------------------------------------------------------
(* rate_limit *)

\* the reset times the status query can report, as ticks from now: around
\* now (past and future), around SampleSecs, around MAX_WAIT_SECONDS, and far
Remainings ==
    {t \in (-MaxPastSecs * TicksPerSec) .. (FarAheadSecs * TicksPerSec) :
        \/ t <= NearSecs * TicksPerSec
        \/ /\ t >= (SampleSecs - 1) * TicksPerSec
           /\ t <= (SampleSecs + 1) * TicksPerSec
        \/ /\ t >= (MAX_WAIT_SECONDS - 2) * TicksPerSec
           /\ t <= (MAX_WAIT_SECONDS + 1) * TicksPerSec
        \/ t = FarAheadSecs * TicksPerSec}

\* wait_seconds without the added second
wait_seconds_no_margin(r) == Min(Ceil(r, TicksPerSec), MAX_WAIT_SECONDS)

\* wait_seconds for a reset that is r ticks away:
\* min(math.ceil(remaining.total_seconds() + 1.0), MAX_WAIT_SECONDS)
wait_seconds(r) == Min(Ceil(r + TicksPerSec, TicksPerSec), MAX_WAIT_SECONDS)

\* time.sleep(w) raises ValueError for a negative w
time_sleep(w) == IF w >= 0 THEN "slept" ELSE "ValueError"

\* wrapped_func with the retry inside a loop: a rate-limited retry is caught too
wrapped_func_loop(f, n, out) ==
    IF out.kind = "return" THEN "returned"
    ELSE IF Guarded(f) /\ out.val = "RateLimitExceededException"
         THEN "caught"
         ELSE "raised"

\* wrapped_func with a bare except: any exception of the first attempt is caught
wrapped_func_bare_except(f, n, out) ==
    IF out.kind = "return" THEN "returned"
    ELSE IF Guarded(f) /\ n = 1 THEN "caught" ELSE "raised"

\* wrapped_func that waits and calls again whatever the first attempt did
wrapped_func_always_retry(f, n, out) ==
    IF Guarded(f) /\ n = 1 THEN "caught"
    ELSE IF out.kind = "return" THEN "returned" ELSE "raised"

\* wrapped_func that sleeps without asking for the rate-limit status
wrapped_func_no_query(f, n, out) ==
    IF out.kind = "return" THEN "returned"
    ELSE IF Guarded(f) /\ n = 1 /\ out.val = "RateLimitExceededException"
         THEN "sleeping"
         ELSE "raised"

\* wrapped_func: what becomes of the n-th attempt's outcome.  Only the first
\* call of func is inside the try, and the except clause names
\* RateLimitExceededException only; an undecorated function has no wrapper.
wrapped_func(f, n, out) ==
    IF out.kind = "return" THEN "returned"
    ELSE IF Guarded(f) /\ n = 1 /\ out.val = "RateLimitExceededException"
         THEN "caught"
         ELSE "raised"

----------------------------------------------------------------------------
(* st.cache *)

EmptyMap == [k \in {} |-> k]

EmptyCache == [f \in Functions |-> EmptyMap]

NoneStored == [f \in Functions |-> {}]

\* a cache that never answers
cache_hit_never(c, f, k) == FALSE

cache_hit(c, f, k) == k \in DOMAIN c[f]

cache_write(c, f, k, v) == [c EXCEPT ![f] = (k :> v) @@ @]

----------------------------------------------------------------------------
(* The state after the process has started *)

Init ==
    /\ pc = "idle" /\ fn = "none" /\ key = "none" /\ caller = "none"
    /\ attempts = 0 /\ bodyRuns = 0 /\ queries = 0 /\ sleeps = 0
    /\ events = <<>> /\ outs = <<>>
    /\ remaining = 0 /\ wait = 0
    /\ result = NoResult /\ response = NoResp
    /\ cache = EmptyCache
    /\ stored = NoneStored
    /\ apps = <<>> /\ idx = 0 /\ has_streamlit_badge = <<>>
    /\ candidate = <<>> /\ parser = "none" /\ parsed = NoResult
    /\ readme_contents = <<>>
    /\ batch = "off" /\ error = "none" /\ exported = <<>>

----------------------------------------------------------------------------
(* A call of one of the functions of streamlit_github.py *)

Call(f, k, who) ==
    /\ pc' = "attempt" /\ fn' = f /\ key' = k /\ caller' = who
    /\ attempts' = 0 /\ bodyRuns' = 0 /\ queries' = 0 /\ sleeps' = 0
    /\ events' = <<>> /\ outs' = <<>>
    /\ remaining' = 0 /\ wait' = 0
    /\ result' = NoResult /\ response' = NoResp

\* a caller of the library calls a function
ClientCall ==
    /\ pc = "idle" /\ batch = "off"
    /\ \E f \in Functions : \E k \in Keys(f) : Call(f, k, "client")
    /\ UNCHANGED <<cache, stored>>
    /\ UNCHANGED batchVars

\* the cache under the guard storing whatever the body ended with
Outcome_store_any(out, ran) ==
    /\ attempts' = attempts + 1
    /\ bodyRuns' = bodyRuns + (IF ran THEN 1 ELSE 0)
    /\ events' = Append(events, IF ran THEN "miss" ELSE "hit")
    /\ outs' = Append(outs, out)
    /\ IF ran
       THEN /\ cache' = cache_write(cache, fn, key, out.val)
            /\ stored' = [stored EXCEPT ![fn] = @ \cup {key}]
       ELSE UNCHANGED <<cache, stored>>
    /\ pc' = wrapped_func(fn, attempts + 1, out)
    /\ result' = IF pc' = "caught" THEN result ELSE out

\* the outcome of one invocation of the cached function reaches wrapped_func
Outcome(out, ran) ==
    /\ attempts' = attempts + 1
    /\ bodyRuns' = bodyRuns + (IF ran THEN 1 ELSE 0)
    /\ events' = Append(events, IF ran THEN "miss" ELSE "hit")
    /\ outs' = Append(outs, out)
    /\ IF ran /\ out.kind = "return"
       THEN /\ cache' = cache_write(cache, fn, key, out.val)
            /\ stored' = [stored EXCEPT ![fn] = @ \cup {key}]
       ELSE UNCHANGED <<cache, stored>>
    /\ pc' = wrapped_func(fn, attempts + 1, out)
    /\ result' = IF pc' = "caught" THEN result ELSE out

\* func(github, *args, **kwargs): the st.cache wrapper answers from the
\* cache, or runs the body and stores what it returns
Attempt ==
    /\ pc = "attempt"
    /\ IF cache_hit(cache, fn, key)
       THEN Outcome(Return(cache[fn][key]), FALSE) /\ UNCHANGED response
       ELSE \E r \in Responses(fn, key) : Outcome(Body(fn, key, r), TRUE) /\ response' = r
    /\ UNCHANGED <<fn, key, caller, queries, sleeps, remaining, wait>>
    /\ UNCHANGED batchVars

\* github.get_rate_limit().search and the computation of wait_seconds
StatusQuery ==
    /\ pc = "caught"
    /\ \E r \in Remainings :
         /\ remaining' = r
         /\ wait' = wait_seconds(r)
    /\ queries' = queries + 1
    /\ events' = Append(events, "query")
    /\ pc' = "sleeping"
    /\ UNCHANGED <<fn, key, caller, attempts, bodyRuns, sleeps, outs, result, response,
                   cache, stored>>
    /\ UNCHANGED batchVars

\* time.sleep(wait_seconds), then the second call of func
Sleep ==
    /\ pc = "sleeping"
    /\ IF time_sleep(wait) = "slept"
       THEN /\ sleeps' = sleeps + 1
            /\ events' = Append(events, "sleep")
            /\ pc' = "attempt"
            /\ UNCHANGED result
       ELSE /\ pc' = "raised"
            /\ result' = Raise(time_sleep(wait))
            /\ UNCHANGED <<sleeps, events>>
    /\ UNCHANGED <<fn, key, caller, attempts, bodyRuns, queries, outs, response,
                   remaining, wait, cache, stored>>
    /\ UNCHANGED batchVars

Idle ==
    /\ pc' = "idle" /\ fn' = "none" /\ key' = "none" /\ caller' = "none"
    /\ attempts' = 0 /\ bodyRuns' = 0 /\ queries' = 0 /\ sleeps' = 0
    /\ events' = <<>> /\ outs' = <<>>
    /\ remaining' = 0 /\ wait' = 0
    /\ result' = NoResult /\ response' = NoResp

\* the call returns to the caller of the library
Finish ==
    /\ pc \in {"returned", "raised"} /\ caller = "client"
    /\ Idle
    /\ UNCHANGED <<cache, stored>>
    /\ UNCHANGED batchVars

\* the process ends and a new one starts: the memory cache is gone, the
\* entries of the persist=True functions are read back from the disk
NewSession ==
    /\ pc = "idle" /\ batch = "off"
    /\ \E f \in Functions : cache[f] # EmptyMap
    /\ cache' = [f \in Functions |-> IF Persisted(f) THEN cache[f] ELSE EmptyMap]
    /\ stored' = NoneStored
    /\ UNCHANGED callVars
    /\ UNCHANGED batchVars

----------------------------------------------------------------------------
(* File contents *)

BADGE_URL == "https://static.streamlit.io/badges/streamlit_badge_black_white.svg"

\* README contents as sequences of pieces of text; 0xFF is a byte that is
\* not valid UTF-8
Readmes == {<<"text">>, <<"text", BADGE_URL, "text">>, <<"text", "0xFF">>,
            <<"https://static.streamlit.io/badges/streamlit_badge_red.svg">>}

ContentResponses ==
    {Resp("ok", t) : t \in Readmes}
      \cup {Resp("rate_limited", <<>>), Resp("not_found", <<>>), Resp("error", <<>>)}

\* repo.get_contents(coords.path, ref=coords.branch)
repo_get_contents(resp) ==
    IF resp.kind = "ok" THEN Return(resp.data) ELSE Raise(RemoteException(resp))

\* get_contents: get_repo(github, coords), then the contents of the file
GetContentsCall ==
    /\ pc = "idle" /\ batch = "off"
    /\ \E k \in CoordsSet : Call("get_repo", k, "get_contents")
    /\ UNCHANGED <<cache, stored>>
    /\ UNCHANGED batchVars

GetContentsFetch ==
    /\ pc \in {"returned", "raised"} /\ caller = "get_contents"
    /\ caller' = "client"
    /\ IF pc = "raised"
       THEN UNCHANGED <<pc, result, events>>
       ELSE \E r \in ContentResponses :
              /\ result' = repo_get_contents(r)
              /\ pc' = IF result'.kind = "return" THEN "returned" ELSE "raised"
              /\ events' = Append(events, "contents")
    /\ UNCHANGED <<fn, key, attempts, bodyRuns, queries, sleeps, outs, response,
                   remaining, wait, cache, stored>>
    /\ UNCHANGED batchVars

----------------------------------------------------------------------------
(* streamlit_app.py *)

\* GithubCoords.get_repo(github), called by parse_s4a_apps: the repository
\* resolver applied to these coordinates
coords_get_repo(coords) == <<"get_repo", coords>>

\* get_readme(repo): the README of the repository, or the exception of the
\* failed fetch
get_readme(resp) == repo_get_contents(resp)

\* readme.decoded_content.decode('utf-8')
decode_utf8(bytes) ==
    IF \E i \in 1..Len(bytes) : bytes[i] = "0xFF"
    THEN Raise("UnicodeDecodeError")
    ELSE Return(bytes)

\* a badge check that takes any badge of the badge host for the badge
has_badge_in_any(text) ==
    \E i \in 1..Len(text) : text[i] \notin {"text", "0xFF"}

\* has_streamlit_badge: the badge URL occurs in the decoded README
has_badge_in(text) == \E i \in 1..Len(text) : text[i] = BADGE_URL

\* main: get_config() obtains the client handle through from_access_token
GetConfig ==
    /\ pc = "idle" /\ batch = "off"
    /\ \E access_token \in Tokens : Call("from_access_token", access_token, "main")
    /\ UNCHANGED <<cache, stored>>
    /\ UNCHANGED batchVars

\* parse_s4a_apps up to the loop: select_apps() and the 'Process apps' button
SelectApps ==
    /\ pc \in {"returned", "raised"} /\ caller = "main"
    /\ Idle
    /\ IF pc = "raised"
       THEN /\ batch' = "raised" /\ error' = result.val
            /\ UNCHANGED <<apps, idx, has_streamlit_badge, exported>>
       ELSE \E first_app_index, last_app_index \in 0..Len(AppTable) :
            \E clicked \in BOOLEAN :
              IF first_app_index >= last_app_index
              THEN /\ batch' = "raised" /\ error' = "RuntimeError"
                   /\ UNCHANGED <<apps, idx, has_streamlit_badge, exported>>
              ELSE /\ apps' = SubSeq(AppTable, first_app_index + 1, last_app_index)
                   /\ has_streamlit_badge' = <<>>
                   /\ error' = "none"
                   /\ exported' = <<>>
                   /\ IF clicked
                      THEN batch' = "loop" /\ idx' = 1
                      ELSE batch' = "done" /\ idx' = 0
    /\ UNCHANGED readme_contents /\ UNCHANGED parseVars
    /\ UNCHANGED <<cache, stored>>

\* the loop body up to the resolution of the repository
LoopParse ==
    /\ batch = "loop" /\ idx <= Len(apps) /\ pc = "idle"
    /\ candidate' = apps[idx] /\ parser' = "from_app_url"
    /\ parsed' = from_app_url(apps[idx])
    /\ IF parsed'.kind = "raise"
       THEN /\ batch' = "raised" /\ error' = parsed'.val
            /\ UNCHANGED callVars
       ELSE /\ Call(coords_get_repo(parsed'.val)[1], coords_get_repo(parsed'.val)[2], "batch")
            /\ batch' = "resolving"
            /\ UNCHANGED error
    /\ UNCHANGED <<apps, idx, has_streamlit_badge, readme_contents, exported,
                   cache, stored>>

\* the rest of the loop body: the README, the badge check, the append.
\* No exception is handled: the except clauses are commented out.
LoopBody ==
    /\ batch = "resolving" /\ pc \in {"returned", "raised"} /\ caller = "batch"
    /\ Idle
    /\ IF pc = "raised"
       THEN /\ batch' = "raised" /\ error' = result.val
            /\ UNCHANGED <<idx, has_streamlit_badge, readme_contents>>
       ELSE \E r \in ContentResponses :
              LET readme == get_readme(r)
                  decoded == IF readme.kind = "return"
                             THEN decode_utf8(readme.val) ELSE readme
              IN IF decoded.kind = "raise"
                 THEN /\ batch' = "raised" /\ error' = decoded.val
                      /\ UNCHANGED <<idx, has_streamlit_badge, readme_contents>>
                 ELSE /\ readme_contents' = decoded.val
                      /\ has_streamlit_badge' =
                           Append(has_streamlit_badge, has_badge_in(decoded.val))
                      /\ idx' = idx + 1
                      /\ batch' = "loop"
                      /\ UNCHANGED error
    /\ UNCHANGED <<apps, exported, cache, stored>>
    /\ UNCHANGED parseVars

\* the badge column set one row late: row i gets the result of row i - 1
with_has_badge_shifted(rows, badges) ==
    [i \in 1..Len(rows) |->
       [app_url |-> rows[i], has_badge |-> badges[IF i = 1 THEN Len(rows) ELSE i - 1]]]

\* apps['has_badge'] = has_streamlit_badge
with_has_badge(rows, badges) ==
    [i \in 1..Len(rows) |-> [app_url |-> rows[i], has_badge |-> badges[i]]]

\* after the loop: apps['has_badge'] = has_streamlit_badge; apps.to_csv('out.csv')
Export ==
    /\ batch = "loop" /\ idx > Len(apps) /\ pc = "idle"
    /\ exported' = with_has_badge(apps, has_streamlit_badge)
    /\ batch' = "done"
    /\ UNCHANGED <<apps, idx, has_streamlit_badge, readme_contents, error,
                   cache, stored>>
    /\ UNCHANGED parseVars
    /\ UNCHANGED callVars

\* the script run is over; the next one starts from main()
Rerun ==
    /\ batch \in {"done", "raised"}
    /\ batch' = "off" /\ apps' = <<>> /\ idx' = 0 /\ has_streamlit_badge' = <<>>
    /\ candidate' = <<>> /\ parser' = "none" /\ parsed' = NoResult
    /\ readme_contents' = <<>>
    /\ error' = "none" /\ exported' = <<>>
    /\ UNCHANGED <<cache, stored>>
    /\ UNCHANGED callVars

Next ==
    \/ ClientCall \/ Attempt \/ StatusQuery \/ Sleep \/ Finish \/ NewSession
    \/ GetContentsCall \/ GetContentsFetch
    \/ GetConfig \/ SelectApps \/ LoopParse \/ LoopBody \/ Export \/ Rerun

Spec == Init /\ [][Next]_vars

----------------------------------------------------------------------------
(* The parse functions applied to the strings of Urls *)

ParseInit ==
    /\ pc = "idle" /\ fn = "none" /\ key = "none" /\ caller = "none"
    /\ attempts = 0 /\ bodyRuns = 0 /\ queries = 0 /\ sleeps = 0
    /\ events = <<>> /\ outs = <<>>
    /\ remaining = 0 /\ wait = 0
    /\ result = NoResult /\ response = NoResp
    /\ cache = EmptyCache
    /\ stored = NoneStored
    /\ apps = <<>> /\ idx = 0 /\ has_streamlit_badge = <<>>
    /\ candidate \in Urls /\ parser = "none" /\ parsed = NoResult
    /\ readme_contents = <<>>
    /\ batch = "off" /\ error = "none" /\ exported = <<>>

ParseAppUrl ==
    /\ parser = "none"
    /\ parser' = "from_app_url"
    /\ parsed' = from_app_url(candidate)
    /\ UNCHANGED <<candidate, apps, idx, has_streamlit_badge, readme_contents,
                   batch, error, exported, cache, stored>>
    /\ UNCHANGED callVars

ParseGithubUrl ==
    /\ parser = "none"
    /\ parser' = "from_github_url"
    /\ parsed' = from_github_url(candidate)
    /\ UNCHANGED <<candidate, apps, idx, has_streamlit_badge, readme_contents,
                   batch, error, exported, cache, stored>>
    /\ UNCHANGED callVars

ParseNext == ParseAppUrl \/ ParseGithubUrl

ParseSpec == ParseInit /\ [][ParseNext]_vars

----------------------------------------------------------------------------
(* Properties *)

RLE == "RateLimitExceededException"

Done == pc \in {"returned", "raised"}

\* the n-th attempt of the call in flight raised exception e
Raised(n, e) == Len(outs) >= n /\ outs[n].kind = "raise" /\ outs[n].val = e

\* the n-th attempt of the call in flight raised something other than the
\* rate-limit signal
RaisedOther(n) == Len(outs) >= n /\ outs[n].kind = "raise" /\ outs[n].val # RLE

\* C1: a guarded call invokes the operation at most twice and sleeps at most
\* once, and when its first attempt is rate-limited it has, by the time it
\* ends, queried the status once, slept once and retried once.
C1_RetriedExactlyOnce ==
    Guarded(fn) =>
      /\ attempts <= 2 /\ sleeps <= 1
      /\ (Done /\ Raised(1, RLE)) => (attempts = 2 /\ sleeps = 1 /\ queries = 1)

\* C2: when the retry of a guarded call is rate-limited too, that error is
\* what the call raises, after one status query, one sleep and two attempts.
C2_SecondRateLimitPropagates ==
    (Guarded(fn) /\ Raised(2, RLE)) =>
      /\ pc = "raised" /\ result = outs[2]
      /\ attempts = 2 /\ queries = 1 /\ sleeps = 1
      /\ events = <<"miss", "query", "sleep", "miss">>

C2_Witness ==
    /\ Guarded(fn) /\ pc = "raised" /\ attempts = 2
    /\ result.val = RLE /\ sleeps = 1

\* C3: when an attempt of a guarded call raises anything but the rate-limit
\* signal, the call raises that exception at once: no status query, no sleep
\* and no attempt follows it.
C3_OtherExceptionPropagates ==
    \A n \in 1..2 :
      (Guarded(fn) /\ RaisedOther(n)) =>
        /\ pc = "raised" /\ result = outs[n]
        /\ attempts = n /\ queries = n - 1 /\ sleeps = n - 1
        /\ Len(events) = 3 * n - 2

C3_Witness ==
    /\ Guarded(fn) /\ pc = "raised" /\ attempts = 1
    /\ result.val = "GithubException" /\ queries = 0 /\ sleeps = 0

\* C4: when the first attempt of a guarded call returns, the call returns
\* that value after one invocation, without status query and without sleep.
C4_SuccessReturnsImmediately ==
    (Guarded(fn) /\ Len(outs) >= 1 /\ outs[1].kind = "return") =>
      /\ pc = "returned" /\ result = outs[1]
      /\ attempts = 1 /\ queries = 0 /\ sleeps = 0
      /\ Len(events) = 1

C4_Witness ==
    /\ Guarded(fn) /\ pc = "returned" /\ attempts = 1 /\ bodyRuns = 1
    /\ fn = "get_user_from_email" /\ result.val = "u1"

\* C5: whatever reset time the status query reports, the wait the guard
\* computes is ceil(seconds until reset + 1) clamped into [0, 60].
C5_WaitClamped ==
    pc = "sleeping" =>
      /\ wait = Max(0, Min(Ceil(remaining + TicksPerSec, TicksPerSec), MAX_WAIT_SECONDS))
      /\ wait >= 0 /\ wait <= MAX_WAIT_SECONDS
      /\ (remaining = FarAheadSecs * TicksPerSec => wait = MAX_WAIT_SECONDS)

\* the reset time reported is between 0 and 59 seconds away
Unclamped ==
    /\ queries = 1
    /\ remaining >= 0
    /\ remaining <= (MAX_WAIT_SECONDS - 1) * TicksPerSec

\* C6 as stated: with the reset d seconds away, 0 <= d <= 59, the guard waits
\* at least d and at most d + 1 seconds.
C6_WaitWithinOneSecond ==
    Unclamped =>
      /\ wait * TicksPerSec >= remaining
      /\ wait * TicksPerSec <= remaining + TicksPerSec

\* C6 as amended: with the reset d seconds away, 0 <= d <= 59, the guard
\* waits at least d + 1 and less than d + 2 seconds, and then retries: the
\* retry is never issued before the reset.
C6_WaitCeilOfOneMore ==
    Unclamped =>
      /\ wait * TicksPerSec >= remaining + TicksPerSec
      /\ wait * TicksPerSec < remaining + 2 * TicksPerSec
      /\ (pc # "sleeping" =>
            /\ sleeps = 1
            /\ SubSeq(events, 1, 3) = <<"miss", "query", "sleep">>
            /\ (pc # "attempt" => attempts = 2))

C6_Witness ==
    /\ Guarded(fn) /\ sleeps = 1 /\ attempts = 2
    /\ remaining = SampleSecs * TicksPerSec /\ wait = SampleSecs + 1

\* C8 as stated: every entry the cache holds was stored by a request that
\* completed since the session started (the cache starts empty).
C8_StartsEmpty ==
    \A f \in Functions : DOMAIN cache[f] \subseteq stored[f]

\* a step within a session keeps every entry as it is, adds an entry only
\* for the key of a request whose body has just returned, and answers a
\* request for a key that has an entry from the cache, without running the body
CacheStep ==
    /\ \A f \in Functions : \A k \in DOMAIN cache[f] :
         k \in DOMAIN cache'[f] /\ cache'[f][k] = cache[f][k]
    /\ \A f \in Functions : \A k \in DOMAIN cache'[f] \ DOMAIN cache[f] :
         /\ pc = "attempt" /\ pc' = "returned"
         /\ f = fn /\ k = key
         /\ bodyRuns' = bodyRuns + 1
         /\ result' = Return(cache'[f][k])
    /\ (pc = "attempt" /\ key \in DOMAIN cache[fn]) =>
         /\ pc' = "returned"
         /\ bodyRuns' = bodyRuns
         /\ result' = Return(cache[fn][key])

\* C8 as amended: a session starts with no entries but those the
\* persist=True functions persisted earlier; within a session an entry is
\* gained only when a request for its key completes successfully, is never
\* removed or changed, and answers every later request for its key without
\* an underlying call.
C8_CacheOnlyGrows ==
    /\ [](\A f \in Functions : ~Persisted(f) => DOMAIN cache[f] \subseteq stored[f])
    /\ [][NewSession \/ CacheStep]_vars

C8_Witness ==
    /\ pc = "returned" /\ fn = "get_repo" /\ events = <<"hit">>
    /\ bodyRuns = 0 /\ result = Return(cache[fn][key])

C10_NotFoundSkipsItem ==
    [][(/\ batch = "resolving" /\ pc = "raised"
        /\ result.val = "UnknownObjectException")
         => /\ batch' = "loop"
            /\ idx' = idx + 1
            /\ has_streamlit_badge' = Append(has_streamlit_badge, FALSE)]_vars

\* the item at idx is about to fail to parse
ParseFails ==
    /\ batch = "loop" /\ pc = "idle" /\ idx <= Len(apps)
    /\ from_app_url(apps[idx]).kind = "raise"

\* the resolution of the item at idx has failed
ResolveFails == batch = "resolving" /\ pc = "raised"

SkipItem ==
    /\ batch' = "loop"
    /\ idx' = idx + 1
    /\ has_streamlit_badge' = Append(has_streamlit_badge, FALSE)

\* C11: an item that fails with not-found or with a malformed URL is skipped
\* and the batch goes on; an item that fails with any other error ends the
\* batch with that error, and no later item is processed.
C11_OnlyRecognizedFailuresSkip ==
    [][/\ ParseFails => SkipItem
       /\ (ResolveFails /\ result.val = "UnknownObjectException") => SkipItem
       /\ (ResolveFails /\ result.val # "UnknownObjectException") =>
            (batch' = "raised" /\ error' = result.val)
       /\ batch = "raised" =>
            (has_streamlit_badge' \in {has_streamlit_badge, <<>>} /\ pc' = "idle")]_vars

\* the URL the four fields stand for
Rebuild(host, mid, c) ==
    <<host>> \o c.owner \o <<"/">> \o c.repo \o mid \o c.branch \o <<"/">> \o c.path

Parsed == parser # "none"

Accepted == Parsed /\ parsed.kind = "return"

\* C12: applied to a string that matches neither grammar, a parse function
\* fails, and fails with MalformedUrlError.
C12_MalformedUrlError ==
    (Parsed /\ ~AppGrammar(candidate) /\ ~GithubGrammar(candidate)) =>
      (parsed.kind = "raise" /\ parsed.val = "MalformedUrlError")

\* the example of the direct repository-file URL, in the model's characters
ExampleGithubUrl ==
    <<GITHUB_HOST, "a", "/", "b", "/", "b", "l", "o", "b", "/", "m", "/", "a", ".", "m", "d">>

\* C13: rebuilding the URL from the coordinates from_app_url returned gives
\* the string it was applied to, and from_github_url yields the four fields
\* of the example URL.
C13_RoundTrip ==
    /\ (Accepted /\ parser = "from_app_url") =>
         Rebuild(APP_HOST, <<"/">>, parsed.val) = candidate
    /\ (Parsed /\ parser = "from_github_url" /\ candidate = ExampleGithubUrl) =>
         /\ parsed.kind = "return"
         /\ parsed.val = [owner |-> <<"a">>, repo |-> <<"b">>, branch |-> <<"m">>,
                          path |-> <<"a", ".", "m", "d">>]

\* C15: a parse function returns coordinates only for a string the whole of
\* which matches its grammar.
C15_WholeStringMatch ==
    Accepted =>
      IF parser = "from_app_url" THEN AppGrammar(candidate)
                                 ELSE GithubGrammar(candidate)

Last(q) == q[Len(q)]

\* C14: the has_badge value the batch records for a row is true exactly when
\* the decoded README of that row contains the literal BADGE_URL.
C14_BadgeIffLiteral ==
    [][(batch = "resolving" /\ batch' = "loop") =>
         /\ Len(has_streamlit_badge') = Len(has_streamlit_badge) + 1
         /\ Last(has_streamlit_badge') =
              (\E i \in 1..Len(readme_contents') :
                 readme_contents'[i] =
                   "https://static.streamlit.io/badges/streamlit_badge_black_white.svg")]_vars

C14_Witness ==
    /\ batch = "loop" /\ Len(has_streamlit_badge) = 2
    /\ has_streamlit_badge[1] /\ ~has_streamlit_badge[2]
    /\ readme_contents = <<"https://static.streamlit.io/badges/streamlit_badge_red.svg">>

\* the rows and the results of the batch agree with the position of the loop
BatchInOrder ==
    /\ batch \in {"loop", "resolving", "raised"} =>
         (idx >= 1 => Len(has_streamlit_badge) = idx - 1)
    /\ batch = "resolving" => (idx <= Len(apps) /\ candidate = apps[idx])
    /\ exported # <<>> =>
         /\ batch = "done" /\ idx = Len(apps) + 1
         /\ Len(exported) = Len(apps)
         /\ Len(has_streamlit_badge) = Len(apps)
         /\ \A i \in 1..Len(apps) :
              /\ exported[i].app_url = apps[i]
              /\ exported[i].has_badge = has_streamlit_badge[i]
    /\ batch = "raised" => exported = <<>>

\* C20: the items are processed one after another in selection order, the
\* list of results has one entry per item processed so far, out.csv is
\* written only after the last item, with one has_badge per row in row
\* order, and a run that halts exports nothing.
C20_SequentialThenExport ==
    /\ []BatchInOrder
    /\ [][/\ idx' # idx => (idx' = idx + 1 \/ idx' \in {0, 1})
          /\ (batch = "raised" /\ batch' # "raised") => (batch' = "off" /\ exported' = <<>>)
          /\ exported' # exported =>
               \/ exported' = <<>>
               \/ (batch = "loop" /\ idx = Len(apps) + 1 /\ batch' = "done")]_vars

C20_Witness ==
    /\ batch = "done" /\ Len(exported) = 2
    /\ exported[1].has_badge /\ ~exported[2].has_badge
    /\ exported[1].app_url = AppTable[1] /\ exported[2].app_url = AppTable[2]

\* the body of the function called has run in this call, and met `response`
BodyRan(f) == fn = f /\ response.kind # "none" /\ Len(outs) >= 1

\* C16: a guarded call queries the rate-limit status only when its first
\* attempt was rate-limited, then exactly once, after that attempt and before
\* the sleep, and the wait it sleeps is computed from that query's snapshot.
C16_FreshStatusQuery ==
    /\ [](/\ (Guarded(fn) /\ Raised(1, RLE) /\ pc # "caught") =>
               /\ queries = 1
               /\ SubSeq(events, 1, 2) = <<"miss", "query">>
               /\ wait = wait_seconds(remaining)
               /\ (sleeps >= 1 => (sleeps = 1 /\ events[3] = "sleep"))
          /\ ~Raised(1, RLE) => (queries = 0 /\ sleeps = 0))
    /\ [][/\ queries' # queries =>
               \/ queries' = 0
               \/ (pc = "caught" /\ queries = 0 /\ queries' = 1 /\ sleeps' = 0)
          /\ sleeps' > sleeps =>
               (queries = 1 /\ pc = "sleeping" /\ wait = wait_seconds(remaining))]_vars

C16_Witness ==
    /\ Guarded(fn) /\ pc = "attempt" /\ queries = 1 /\ sleeps = 1
    /\ events = <<"miss", "query", "sleep">>
    /\ remaining = NearSecs * TicksPerSec

\* C17: in get_streamlit_files a rate-limited search re-raises the rate-limit
\* error (which the guard then catches on the first attempt), a GithubException
\* with the message 'Validation Failed' gives the empty list, and every other
\* GithubException is raised unchanged.
C17_ThreeErrorClasses ==
    BodyRan("get_streamlit_files") =>
      /\ response.kind = "rate_limited" =>
           (Last(outs) = Raise(RLE) /\ (attempts = 1 => pc # "raised" \/ queries = 1))
      /\ response.kind = "validation_failed" =>
           (Last(outs) = Return(<<>>) /\ pc = "returned")
      /\ response.kind \in {"error", "error_no_message"} =>
           (Last(outs) = Raise("GithubException") /\ pc = "raised")

\* C18: get_user_from_email returns None for no user, the user for one user,
\* and raises the ambiguity error for several, which the guard does not retry.
C18_UserLookup ==
    (BodyRan("get_user_from_email") /\ response.kind = "ok") =>
      LET users == response.data
      IN /\ Len(users) = 0 => (Last(outs) = Return("None") /\ pc = "returned")
         /\ Len(users) = 1 => (Last(outs) = Return(users[1]) /\ pc = "returned")
         /\ Len(users) >= 2 =>
              /\ Last(outs) = Raise("RuntimeError")
              /\ pc = "raised" /\ result = Last(outs)
              /\ queries = attempts - 1 /\ sleeps = attempts - 1

C18_Witness ==
    /\ fn = "get_user_from_email" /\ pc = "raised" /\ attempts = 1
    /\ response.kind = "ok" /\ Len(response.data) = 2
    /\ result.val = "RuntimeError"

\* C19: an attempt that fails stores nothing: the retry of a guarded call
\* runs the body again, a guarded call that ends in an exception leaves its
\* key without an entry, and an entry is written only with a returned value.
C19_FailureNotCached ==
    /\ [](/\ (Guarded(fn) /\ attempts = 2) =>
               (events = <<"miss", "query", "sleep", "miss">> /\ bodyRuns = 2)
          /\ (Guarded(fn) /\ pc = "raised") => key \notin DOMAIN cache[fn])
    /\ [][/\ (pc = "attempt" /\ pc' \in {"caught", "raised"}) =>
               (cache' = cache /\ bodyRuns' = bodyRuns + 1)
          /\ (pc = "attempt" /\ cache' # cache) =>
               /\ pc' = "returned" /\ result'.kind = "return"
               /\ cache'[fn][key] = result'.val]_vars

C19_Witness ==
    /\ Guarded(fn) /\ pc = "raised" /\ attempts = 2 /\ bodyRuns = 2
    /\ result.val = "GithubException"
    /\ key \notin DOMAIN cache[fn]

====
